---- MODULE Spec2Model ----
(***************************************************************************)
(* Data operations of app.py (SQLite version of the e-commerce demo).      *)
(*                                                                         *)
(* The store is one SQLite file.  Every data operation opens its own       *)
(* connection (create_connection), runs its statements and closes it.      *)
(* Python's sqlite3 module opens a transaction implicitly before the       *)
(* first INSERT/UPDATE/DELETE of a connection and ends it at commit();     *)
(* SQLite admits one writing transaction at a time.  `db` is the committed *)
(* (persisted) store, `wdb` the view of the connection that holds the      *)
(* write lock.  Streamlit runs every browser session's script in its own   *)
(* thread, so the statements of different sessions interleave.             *)
(*                                                                         *)
(* Money is counted in whole units (prices are small integers), so sums    *)
(* and products are exact.                                                 *)
(***************************************************************************)
EXTENDS Integers, Sequences, FiniteSets, TLC

\* ------------------------------------------------------------------ bounds
NumEmails == 3        \* e-mail addresses a registration form may carry
MaxQty == 2           \* largest quantity typed into one "Qty" input
MaxCartUnits == 2     \* units in all carts together (rows and quantities)
MaxOrders == 2        \* orders placed in one run
MaxPad == 1           \* whitespace characters in front of a typed query
MaxNewProducts == 1   \* products added in one run

\* Two browser sessions, two customers registered by an earlier run and two
\* products: the smallest population in which two sessions of one customer,
\* two customers on one product and one order over two products all occur.
Sessions == {1, 2}
ProductIds == {1, 2}
CustomerIds == {1, 2}
Emails == 1..NumEmails
Passwords == {1, 2}

VARIABLES
    db,              \* committed content of ecommerce.db
    wdb,             \* content as seen by the connection in a write transaction
    writer,          \* sessions whose open connection holds the write lock
    leaked,          \* some connection is still open although its operation ended
    leak_tx,         \* a leaked connection still holds the write lock
    storeUp,         \* sqlite3.connect(DATABASE_PATH) succeeds
    pc,              \* position of each session's script
    user,            \* st.session_state.user (customer_id, 0 = None)
    db_initialized,  \* st.session_state.db_initialized
    local,           \* local variables of the running operation
    raised,          \* sessions whose script the last step ended by an uncaught exception
    stock_at_call    \* history: stock_quantity of each product when create_order was entered

vars == <<db, wdb, writer, leaked, leak_tx, storeUp, pc, user, db_initialized,
          local, raised, stock_at_call>>

\* ------------------------------------------------------------ pure helpers
RECURSIVE SumSeq(_)
SumSeq(s) == IF s = <<>> THEN 0 ELSE Head(s) + SumSeq(Tail(s))

\* hashlib.sha256(password.encode()).hexdigest(): a fixed one-way map, here
\* a fixed injection of the small password set into digests.
hash_password(password) == 100 + 7 * password

\* SELECT * FROM cart WHERE customer_id = ? AND product_id = ?
CartMatches(d, customer_id, product_id) ==
    {i \in DOMAIN d.cart : d.cart[i].customer_id = customer_id
                           /\ d.cart[i].product_id = product_id}

\* A slip: the UPDATE stores the new quantity instead of adding it.
CartUpdate_Overwrite(d, customer_id, product_id, quantity) ==
    [d EXCEPT !.cart = [i \in DOMAIN d.cart |->
        IF d.cart[i].customer_id = customer_id /\ d.cart[i].product_id = product_id
        THEN [d.cart[i] EXCEPT !.quantity = quantity]
        ELSE d.cart[i]]]

\* UPDATE cart SET quantity = quantity + ? WHERE customer_id = ? AND product_id = ?
CartUpdate(d, customer_id, product_id, quantity) ==
    [d EXCEPT !.cart = [i \in DOMAIN d.cart |->
        IF i \in CartMatches(d, customer_id, product_id)
        THEN [d.cart[i] EXCEPT !.quantity = @ + quantity]
        ELSE d.cart[i]]]

\* INSERT INTO cart (customer_id, product_id, quantity) VALUES (?, ?, ?)
CartInsert(d, customer_id, product_id, quantity) ==
    [d EXCEPT !.cart = Append(@, [customer_id |-> customer_id,
                                  product_id |-> product_id,
                                  quantity |-> quantity])]

\* A slip: the DELETE has no WHERE clause.
CartDelete_All(d, customer_id) == [d EXCEPT !.cart = <<>>]

\* DELETE FROM cart WHERE customer_id = ?
CartDelete(d, customer_id) ==
    [d EXCEPT !.cart = SelectSeq(@, LAMBDA r : r.customer_id # customer_id)]

\* One row of get_cart_items: c.*, p.price, (c.quantity * p.price) as subtotal
CartLine(d, row) ==
    [product_id |-> row.product_id,
     quantity |-> row.quantity,
     price |-> d.products[row.product_id].price,
     subtotal |-> row.quantity * d.products[row.product_id].price]

\* SELECT ... FROM cart c JOIN products p ... WHERE c.customer_id = ?
CartJoin(d, customer_id) ==
    LET rows == SelectSeq(d.cart, LAMBDA r : r.customer_id = customer_id
                                             /\ r.product_id \in DOMAIN d.products)
    IN [i \in DOMAIN rows |-> CartLine(d, rows[i])]

\* A slip: the total sums the price column instead of the subtotal column.
OrderTotal_OfPrices(cart_items) ==
    SumSeq([i \in DOMAIN cart_items |-> cart_items[i].price])

\* total = cart_items['subtotal'].sum()
OrderTotal(cart_items) ==
    SumSeq([i \in DOMAIN cart_items |-> cart_items[i].subtotal])

\* A slip: the INSERT names a status of its own.
OrderInsert_Processing(d, customer_id, total) ==
    [d EXCEPT !.orders = Append(@, [customer_id |-> customer_id,
                                    total_amount |-> total,
                                    status |-> "processing"])]

\* INSERT INTO orders (customer_id, total_amount, ...); status DEFAULT 'pending'
OrderInsert(d, customer_id, total) ==
    [d EXCEPT !.orders = Append(@, [customer_id |-> customer_id,
                                    total_amount |-> total,
                                    status |-> "pending"])]

\* A slip: the subtotal is bound to the unit_price parameter as well.
ItemInsert_SubtotalAsPrice(d, order_id, item) ==
    [d EXCEPT !.order_items = Append(@, [order_id |-> order_id,
                                         product_id |-> item.product_id,
                                         quantity |-> item.quantity,
                                         unit_price |-> item.subtotal,
                                         subtotal |-> item.subtotal])]

\* INSERT INTO order_items (order_id, product_id, quantity, unit_price, subtotal)
ItemInsert(d, order_id, item) ==
    [d EXCEPT !.order_items = Append(@, [order_id |-> order_id,
                                         product_id |-> item.product_id,
                                         quantity |-> item.quantity,
                                         unit_price |-> item.price,
                                         subtotal |-> item.subtotal])]

\* A slip: the stock is decremented by one per line, whatever its quantity.
StockUpdate_ByOne(d, item) ==
    [d EXCEPT !.products[item.product_id].stock_quantity = @ - 1]

\* UPDATE products SET stock_quantity = stock_quantity - ? WHERE product_id = ?
StockUpdate(d, item) ==
    [d EXCEPT !.products[item.product_id].stock_quantity = @ - item.quantity]

\* customers.email is UNIQUE
EmailTaken(d, email) == \E i \in DOMAIN d.customers : d.customers[i].email = email

\* INSERT INTO customers (..., email, password_hash, ...)
CustomerInsert(d, email, password) ==
    [d EXCEPT !.customers = Append(@, [email |-> email,
                                       password_hash |-> hash_password(password)])]

\* ------------------------------------------------------- query strings
\* A str is a sequence of characters.
Whitespace == {" ", "\n"}

\* str.upper(), character by character (the letters that occur below).
UpperChar(c) ==
    CASE c = "s" -> "S" [] c = "e" -> "E" [] c = "l" -> "L"
      [] c = "c" -> "C" [] c = "t" -> "T" [] c = "d" -> "D"
      [] c = "r" -> "R" [] c = "o" -> "O" [] c = "p" -> "P"
      [] OTHER -> c

upper(str) == [i \in DOMAIN str |-> UpperChar(str[i])]

\* A slip: only trailing whitespace is removed (str.rstrip()).
strip_Trailing(str) ==
    LET keep == {i \in DOMAIN str : str[i] \notin Whitespace}
    IN IF keep = {} THEN <<>>
       ELSE SubSeq(str, 1, CHOOSE i \in keep : \A j \in keep : j <= i)

\* str.strip(): without the whitespace at both ends.
strip(str) ==
    LET keep == {i \in DOMAIN str : str[i] \notin Whitespace}
    IN IF keep = {} THEN <<>>
       ELSE SubSeq(str, CHOOSE i \in keep : \A j \in keep : i <= j,
                        CHOOSE i \in keep : \A j \in keep : j <= i)

\* str.startswith(prefix)
startswith(str, prefix) ==
    Len(str) >= Len(prefix) /\ SubSeq(str, 1, Len(prefix)) = prefix

\* main, line 824: custom_query.strip().upper().startswith('SELECT')
IsSelect(custom_query) ==
    startswith(upper(strip(custom_query)), <<"S", "E", "L", "E", "C", "T">>)

\* Sequences over set S of length at most n.
SeqsUpTo(S, n) == UNION {[1..k -> S] : k \in 0..n}

\* Texts typed into the "Enter SQL Query" area: whitespace, a first word,
\* the rest of the statement, and possibly a trailing blank.
QueryWords ==
    {<<"S", "E", "L", "E", "C", "T">>, <<"s", "e", "l", "e", "c", "t">>,
     <<"S", "e", "l", "e", "c", "T">>, <<"S", "E", "L", "E", "C">>,
     <<"D", "R", "O", "P">>, <<>>}
QueryRests ==
    {<<>>, <<" ", "1">>, <<"E", "D">>, <<" ", "1", ";", "d", "r", "o", "p">>}
CustomQueries ==
    {lead \o word \o rest \o trail :
        lead \in SeqsUpTo(Whitespace, MaxPad), word \in QueryWords,
        rest \in QueryRests, trail \in {<<>>, <<" ">>}}

\* ------------------------------------------------------------- catalog
\* categories.category_name is UNIQUE
NameTaken(d, name) ==
    \E i \in DOMAIN d.categories : d.categories[i].category_name = name

\* INSERT INTO categories (category_name, description) VALUES (?, ?)
CategoryInsert(d, name) ==
    [d EXCEPT !.categories = Append(@, [category_name |-> name])]

\* The keys add_product reads with data[...] (description, which is stored
\* as given, and the optional image_url are left out of the model).
ProductKeys == {"name", "category_id", "price", "stock"}

\* INSERT INTO products (product_name, category_id, price, stock_quantity, ...)
ProductInsert(d, data) ==
    [d EXCEPT !.products = Append(@, [product_name |-> data.name,
                                      category_id |-> data.category_id,
                                      price |-> data.price,
                                      stock_quantity |-> data.stock])]

\* Arguments of add_category and texts of the "Category Name" input.
CategoryNames == {<<>>, <<"a">>, <<"b">>}
CategoryTexts == CategoryNames \cup {<<" ">>, <<" ", "b">>}

\* Dictionaries handed to add_product: a name (possibly empty), a category
\* reference (0 stands for None), a price and a stock, with the stock or the
\* name key possibly missing.
ProductDicts ==
    {[k \in keys |-> full[k]] :
        full \in [name : {<<>>, <<"z">>}, category_id : {0, 1},
                  price : {0, 3}, stock : {2}],
        keys \in {ProductKeys, ProductKeys \ {"stock"}, ProductKeys \ {"name"}}}

\* --------------------------------------------------------- connections
\* Value of the locals of a script that is not inside an operation.
NoLocal ==
    [product_id |-> 0, quantity |-> 0, existing |-> FALSE, cart_items |-> <<>>,
     total |-> 0, order_id |-> 0, i |-> 0, email |-> 0, password |-> 0]

\* Positions at which an operation's own connection is open.
AddToCartPcs == {"atc_select", "atc_write", "atc_commit"}
CreateOrderPcs == {"co_order", "co_item", "co_stock", "co_commit"}
ClearCartPcs == {"cc_delete", "cc_commit"}
RegisterPcs == {"reg_insert", "reg_commit"}
AddCategoryPcs == {"ac_insert", "ac_commit"}
AddProductPcs == {"ap_values", "ap_insert", "ap_commit"}
InOp(s) == pc[s] \in AddToCartPcs \cup CreateOrderPcs \cup ClearCartPcs \cup RegisterPcs

\* What a statement of session s reads: its own uncommitted writes if its
\* connection is inside a transaction, the committed store otherwise.
View(s) == IF s \in writer THEN wdb ELSE db

\* SQLite grants the write lock to one connection at a time.
CanWrite(s) == writer \subseteq {s} /\ ~leak_tx

\* cursor.execute of an INSERT/UPDATE/DELETE: sqlite3 begins the transaction
\* before the first one, the following ones run inside it.
Execute(s, d) ==
    /\ CanWrite(s)
    /\ wdb' = d
    /\ writer' = {s}
    /\ UNCHANGED <<db, leaked, leak_tx>>

\* conn.commit(): the transaction's writes become the persisted store.
Commit(s) ==
    /\ db' = View(s)
    /\ writer' = writer \ {s}
    /\ UNCHANGED <<wdb, leaked, leak_tx>>

\* conn.close() without commit (or the connection being collected): the
\* open transaction is rolled back.
Rollback(s) ==
    /\ wdb' = IF s \in writer THEN db ELSE wdb
    /\ writer' = writer \ {s}
    /\ UNCHANGED <<db, leaked, leak_tx>>

\* A slip: the exception path commits what the transaction has written.
StoreAfterRaise_Commits(committed, pending) == pending

\* The persisted store after an exception left an operation without the
\* except/finally that would commit or close: conn.commit() was not reached.
StoreAfterRaise(committed, pending) == committed

Units(d) == SumSeq([i \in DOMAIN d.cart |-> d.cart[i].quantity])
InFlightUnits ==
    LET RECURSIVE Sum(_)
        Sum(T) == IF T = {} THEN 0
                  ELSE LET t == CHOOSE t \in T : TRUE
                       IN local[t].quantity + Sum(T \ {t})
    IN Sum({s \in Sessions : pc[s] \in AddToCartPcs})

Min(a, b) == IF a < b THEN a ELSE b

\* ------------------------------------------------------------------ Init
\* The store file outlives the program: it holds the customers and products
\* of earlier runs (init_database creates only the tables that are missing).
InitDb ==
    [customers |-> [c \in CustomerIds |-> [email |-> c,
                                           password_hash |-> hash_password(c)]],
     products |-> [p \in ProductIds |-> [price |-> p + 1, stock_quantity |-> p]],
     cart |-> <<>>,
     orders |-> <<>>,
     order_items |-> <<>>]

InitStore ==
    /\ db = InitDb
    /\ wdb = InitDb
    /\ writer = {}
    /\ leaked = FALSE
    /\ leak_tx = FALSE
    /\ storeUp = TRUE
    /\ pc = [s \in Sessions |-> "idle"]
    /\ local = [s \in Sessions |-> NoLocal]
    /\ raised = {}
    /\ stock_at_call = [s \in Sessions |-> <<>>]

\* The same store with the columns and the table the admin panel writes:
\* the products' names and categories, and the categories table.
CatalogDb ==
    [customers |-> InitDb.customers,
     categories |-> <<[category_name |-> <<"a">>]>>,
     products |-> [p \in ProductIds |->
                      [product_name |-> IF p = 1 THEN <<"x">> ELSE <<"y">>,
                       category_id |-> 1,
                       price |-> InitDb.products[p].price,
                       stock_quantity |-> InitDb.products[p].stock_quantity]],
     cart |-> <<>>,
     orders |-> <<>>,
     order_items |-> <<>>]

\* Sessions in which a customer has logged in: session 1 is customer 1's,
\* session 2 is a second session of customer 1 or a session of customer 2
\* (nothing in the program tells one customer_id from another).
Init ==
    /\ InitStore
    /\ user \in {u \in [Sessions -> CustomerIds] : u[1] = 1}
    /\ db_initialized = [s \in Sessions |-> TRUE]

\* Logged-in sessions in front of the admin panel.
InitCatalog ==
    /\ db = CatalogDb
    /\ wdb = CatalogDb
    /\ writer = {}
    /\ leaked = FALSE
    /\ leak_tx = FALSE
    /\ storeUp = TRUE
    /\ pc = [s \in Sessions |-> "idle"]
    /\ local = [s \in Sessions |-> NoLocal]
    /\ raised = {}
    /\ stock_at_call = [s \in Sessions |-> <<>>]
    /\ user \in {u \in [Sessions -> CustomerIds] : u[1] = 1}
    /\ db_initialized = [s \in Sessions |-> TRUE]

\* Sessions that have just been opened.
InitFresh ==
    /\ InitStore
    /\ user = [s \in Sessions |-> 0]
    /\ db_initialized = [s \in Sessions |-> FALSE]

\* An operation of session s returns to the script, which ends its run.
Return(s) ==
    /\ pc' = [pc EXCEPT ![s] = "idle"]
    /\ local' = [local EXCEPT ![s] = NoLocal]
    /\ stock_at_call' = [stock_at_call EXCEPT ![s] = <<>>]
    /\ raised' = {}

Goto(s, label, loc) ==
    /\ pc' = [pc EXCEPT ![s] = label]
    /\ local' = [local EXCEPT ![s] = loc]
    /\ raised' = {}

NoStoreChange == UNCHANGED <<db, wdb, writer, leaked, leak_tx>>

\* -------------------------------------------------------------- actions
\* main, lines 497-500: the first run of a session initialises the database.
\* init_database calls sqlite3.connect outside any try: a failing connect
\* propagates to the script runner and db_initialized stays unset.
InitDatabase(s) ==
    /\ pc[s] = "idle"
    /\ ~db_initialized[s]
    /\ IF storeUp
       THEN /\ db_initialized' = [db_initialized EXCEPT ![s] = TRUE]
            /\ raised' = {}
       ELSE /\ raised' = {s}
            /\ UNCHANGED db_initialized
    /\ NoStoreChange
    /\ UNCHANGED <<storeUp, pc, user, local, stock_at_call>>

\* A slip: the query selects on the email alone.
authenticate_user_EmailOnly(d, email, password) ==
    LET hits == {i \in DOMAIN d.customers : d.customers[i].email = email}
    IN IF hits = {} THEN 0 ELSE CHOOSE i \in hits : \A j \in hits : i <= j

\* SELECT * FROM customers WHERE email = ? AND password_hash = ?; fetchone()
\* (0 stands for None).
authenticate_user(d, email, password) ==
    LET hits == {i \in DOMAIN d.customers :
                    /\ d.customers[i].email = email
                    /\ d.customers[i].password_hash = hash_password(password)}
    IN IF hits = {} THEN 0 ELSE CHOOSE i \in hits : \A j \in hits : i <= j

\* main, lines 518-529: the login form.
Login(s) ==
    /\ pc[s] = "idle"
    /\ db_initialized[s]
    /\ user[s] = 0
    /\ \E email \in Emails, password \in Passwords :
         user' = [user EXCEPT ![s] =
                     IF storeUp THEN authenticate_user(db, email, password) ELSE 0]
    /\ raised' = {}
    /\ NoStoreChange
    /\ UNCHANGED <<storeUp, pc, db_initialized, local, stock_at_call>>

\* main, lines 609-612, and add_to_cart, lines 258-261: "Add to Cart" with
\* a quantity the number_input admits (1..stock_quantity as displayed).
\* Without a connection add_to_cart returns False at once.
AddToCartCall(s) ==
    /\ pc[s] = "idle"
    /\ db_initialized[s]
    /\ user[s] # 0
    /\ \E product_id \in DOMAIN db.products :
       \E quantity \in 1..Min(MaxQty, db.products[product_id].stock_quantity) :
         /\ Units(db) + InFlightUnits + quantity <= MaxCartUnits
         /\ IF storeUp
            THEN /\ Goto(s, "atc_select", [NoLocal EXCEPT !.product_id = product_id,
                                                          !.quantity = quantity])
                 /\ UNCHANGED stock_at_call
            ELSE Return(s)
    /\ NoStoreChange
    /\ UNCHANGED <<storeUp, user, db_initialized>>

\* Values of the quantity parameter of add_to_cart: the function takes any
\* integer, the number_input of the shop tab passes 1 or more.
Quantities == -1..MaxQty

Abs(n) == IF n < 0 THEN -n ELSE n
AbsUnits(d) == SumSeq([i \in DOMAIN d.cart |-> Abs(d.cart[i].quantity)])
InFlightAbsUnits ==
    LET RECURSIVE Sum(_)
        Sum(T) == IF T = {} THEN 0
                  ELSE LET t == CHOOSE t \in T : TRUE
                       IN Abs(local[t].quantity) + Sum(T \ {t})
    IN Sum({s \in Sessions : pc[s] \in AddToCartPcs})

\* add_to_cart, lines 258-261, called with any product and any quantity
\* (the function itself, whoever the caller is).
AddToCartAnyQuantity(s) ==
    /\ pc[s] = "idle"
    /\ user[s] # 0
    /\ \E product_id \in DOMAIN db.products, quantity \in Quantities :
         /\ AbsUnits(db) + InFlightAbsUnits + Abs(quantity) <= MaxCartUnits
         /\ IF storeUp
            THEN /\ Goto(s, "atc_select", [NoLocal EXCEPT !.product_id = product_id,
                                                          !.quantity = quantity])
                 /\ UNCHANGED stock_at_call
            ELSE Return(s)
    /\ NoStoreChange
    /\ UNCHANGED <<storeUp, user, db_initialized>>

\* add_to_cart, lines 263-265: is the item already in the cart?
AtcSelect(s) ==
    /\ pc[s] = "atc_select"
    /\ Goto(s, "atc_write",
            [local[s] EXCEPT !.existing =
                CartMatches(View(s), user[s], local[s].product_id) # {}])
    /\ NoStoreChange
    /\ UNCHANGED <<storeUp, user, db_initialized, stock_at_call>>

\* add_to_cart, lines 267-274: UPDATE the quantity or INSERT a new row.
AtcWrite(s) ==
    /\ pc[s] = "atc_write"
    /\ Execute(s, IF local[s].existing
                  THEN CartUpdate(View(s), user[s], local[s].product_id, local[s].quantity)
                  ELSE CartInsert(View(s), user[s], local[s].product_id, local[s].quantity))
    /\ Goto(s, "atc_commit", local[s])
    /\ UNCHANGED <<storeUp, user, db_initialized, stock_at_call>>

\* add_to_cart, lines 276-279: commit, close, return True.
AtcCommit(s) ==
    /\ pc[s] = "atc_commit"
    /\ Commit(s)
    /\ Return(s)
    /\ UNCHANGED <<storeUp, user, db_initialized>>

\* main, line 620, and get_cart_items: the cart tab reads the customer's
\* cart; the checkout form exists only if the cart is not empty.
GetCartItems(s) ==
    /\ pc[s] = "idle"
    /\ db_initialized[s]
    /\ user[s] # 0
    /\ LET cart_items == IF storeUp THEN CartJoin(db, user[s]) ELSE <<>>
       IN IF cart_items = <<>>
          THEN Return(s)
          ELSE /\ Goto(s, "place_order", [NoLocal EXCEPT !.cart_items = cart_items])
               /\ UNCHANGED stock_at_call
    /\ NoStoreChange
    /\ UNCHANGED <<storeUp, user, db_initialized>>

\* main, lines 643-645, and create_order, lines 306-312: "Place Order".
\* Without a connection create_order returns None and the cart is kept.
CreateOrderCall(s) ==
    /\ pc[s] = "place_order"
    /\ Len(db.orders) + Cardinality({t \in Sessions : pc[t] \in CreateOrderPcs}) < MaxOrders
    /\ IF storeUp
       THEN /\ Goto(s, "co_order",
                    [local[s] EXCEPT !.total = OrderTotal(local[s].cart_items)])
            /\ stock_at_call' = [stock_at_call EXCEPT ![s] =
                  [p \in DOMAIN db.products |-> db.products[p].stock_quantity]]
       ELSE Return(s)
    /\ NoStoreChange
    /\ UNCHANGED <<storeUp, user, db_initialized>>

\* create_order, lines 314-320: insert the order, order_id = cursor.lastrowid.
CoOrder(s) ==
    /\ pc[s] = "co_order"
    /\ Execute(s, OrderInsert(View(s), user[s], local[s].total))
    /\ Goto(s, "co_item", [local[s] EXCEPT !.order_id = Len(View(s).orders) + 1,
                                           !.i = 1])
    /\ UNCHANGED <<storeUp, user, db_initialized, stock_at_call>>

\* create_order, lines 323-329: insert the order item of the current line.
CoItem(s) ==
    /\ pc[s] = "co_item"
    /\ Execute(s, ItemInsert(View(s), local[s].order_id, local[s].cart_items[local[s].i]))
    /\ Goto(s, "co_stock", local[s])
    /\ UNCHANGED <<storeUp, user, db_initialized, stock_at_call>>

\* create_order, lines 331-333: decrement the stock of the current line;
\* line 323: next line of the loop, or leave it.
CoStock(s) ==
    /\ pc[s] = "co_stock"
    /\ Execute(s, StockUpdate(View(s), local[s].cart_items[local[s].i]))
    /\ Goto(s, IF local[s].i = Len(local[s].cart_items) THEN "co_commit" ELSE "co_item",
            [local[s] EXCEPT !.i = @ + 1])
    /\ UNCHANGED <<storeUp, user, db_initialized, stock_at_call>>

\* create_order, lines 335-338: commit, close, return order_id.
CoCommit(s) ==
    /\ pc[s] = "co_commit"
    /\ Commit(s)
    /\ Goto(s, "order_placed", [NoLocal EXCEPT !.order_id = local[s].order_id])
    /\ stock_at_call' = [stock_at_call EXCEPT ![s] = <<>>]
    /\ UNCHANGED <<storeUp, user, db_initialized>>

\* main, lines 646-647, and clear_cart, lines 296-299: a placed order
\* (order_id is truthy) is followed by clear_cart; main's order_id lives on.
ClearCartCall(s) ==
    /\ pc[s] = "order_placed"
    /\ IF storeUp
       THEN /\ Goto(s, "cc_delete", local[s])
            /\ UNCHANGED stock_at_call
       ELSE Return(s)
    /\ NoStoreChange
    /\ UNCHANGED <<storeUp, user, db_initialized>>

\* clear_cart, line 300: DELETE FROM cart WHERE customer_id = ?
CcDelete(s) ==
    /\ pc[s] = "cc_delete"
    /\ Execute(s, CartDelete(View(s), user[s]))
    /\ Goto(s, "cc_commit", local[s])
    /\ UNCHANGED <<storeUp, user, db_initialized, stock_at_call>>

\* clear_cart, lines 301-303: commit and close.
CcCommit(s) ==
    /\ pc[s] = "cc_commit"
    /\ Commit(s)
    /\ Return(s)
    /\ UNCHANGED <<storeUp, user, db_initialized>>

\* main, lines 547-554, and register_customer, lines 154-167.
RegisterCall(s) ==
    /\ pc[s] = "idle"
    /\ db_initialized[s]
    /\ user[s] = 0
    /\ \E email \in Emails, password \in Passwords :
         IF storeUp
         THEN /\ Goto(s, "reg_insert", [NoLocal EXCEPT !.email = email,
                                                       !.password = password])
              /\ UNCHANGED stock_at_call
         ELSE Return(s)
    /\ NoStoreChange
    /\ UNCHANGED <<storeUp, user, db_initialized>>

\* A slip: the schema lacks UNIQUE on customers.email.
InsertAccepted_NoUnique(s, email) == CanWrite(s)

\* The INSERT of register_customer goes through: the write lock is free and
\* the UNIQUE constraint on customers.email (line 63) is satisfied.
InsertAccepted(s, email) == CanWrite(s) /\ ~EmailTaken(View(s), email)

\* register_customer, lines 168-169 and 174-178: the INSERT; any exception
\* (constraint violation, locked database) is caught, the connection is
\* closed and False is returned.
RegInsert(s) ==
    /\ pc[s] = "reg_insert"
    /\ \/ /\ InsertAccepted(s, local[s].email)
          /\ Execute(s, CustomerInsert(View(s), local[s].email, local[s].password))
          /\ Goto(s, "reg_commit", local[s])
          /\ UNCHANGED stock_at_call
       \/ /\ ~InsertAccepted(s, local[s].email)
          /\ Rollback(s)
          /\ Return(s)
    /\ UNCHANGED <<storeUp, user, db_initialized>>

\* register_customer, lines 170-173: commit, close, return True.
RegCommit(s) ==
    /\ pc[s] = "reg_commit"
    /\ Commit(s)
    /\ Return(s)
    /\ UNCHANGED <<storeUp, user, db_initialized>>

\* main, lines 820-821: the admin types a text into the query area.
TypeQuery(s) ==
    /\ pc[s] = "idle"
    /\ db_initialized[s]
    /\ user[s] # 0
    /\ \E custom_query \in CustomQueries :
         Goto(s, "qry_typed", [custom_query |-> custom_query])
    /\ NoStoreChange
    /\ UNCHANGED <<storeUp, user, db_initialized, stock_at_call>>

\* main, lines 823-827 and 834-835: "Execute Query".  A text that passes
\* the test is handed to pd.read_sql on a new connection (if there is one),
\* any other text gets the error message and no connection is made.
ExecuteQuery(s) ==
    /\ pc[s] = "qry_typed"
    /\ IF IsSelect(local[s].custom_query) /\ storeUp
       THEN /\ Goto(s, "qry_read", local[s])
            /\ UNCHANGED stock_at_call
       ELSE Return(s)
    /\ NoStoreChange
    /\ UNCHANGED <<storeUp, user, db_initialized>>

\* main, lines 828-833: pd.read_sql runs the text as one statement.  It
\* returns and the connection is closed, or it raises (syntax error, several
\* statements, unknown table): the except branch reports the error and the
\* connection stays open.  Neither way is anything written.
QryRead(s) ==
    /\ pc[s] = "qry_read"
    /\ \/ UNCHANGED leaked
       \/ leaked' = TRUE
    /\ Return(s)
    /\ UNCHANGED <<db, wdb, writer, leak_tx, storeUp, user, db_initialized>>

\* add_category, lines 239-243, called with any name.  Without a
\* connection it returns False at once.
AddCategoryCall(s) ==
    /\ pc[s] = "idle"
    /\ user[s] # 0
    /\ \E name \in CategoryNames :
         IF storeUp
         THEN /\ Goto(s, "ac_insert", [name |-> name])
              /\ UNCHANGED stock_at_call
         ELSE Return(s)
    /\ NoStoreChange
    /\ UNCHANGED <<storeUp, user, db_initialized>>

\* main, lines 753-761: the "Add Category" form.  A text that is empty
\* after strip() gets an error message; any other is passed, stripped, to
\* add_category.
AddCategoryForm(s) ==
    /\ pc[s] = "idle"
    /\ db_initialized[s]
    /\ user[s] # 0
    /\ \E cat_name \in CategoryTexts :
         IF strip(cat_name) # <<>> /\ storeUp
         THEN /\ Goto(s, "ac_insert", [name |-> strip(cat_name)])
              /\ UNCHANGED stock_at_call
         ELSE Return(s)
    /\ NoStoreChange
    /\ UNCHANGED <<storeUp, user, db_initialized>>

\* The INSERT of add_category goes through: the write lock is free and the
\* UNIQUE constraint on category_name (line 37) is satisfied.  NOT NULL is
\* satisfied by every str, the empty one included.
CategoryAccepted(s, name) == CanWrite(s) /\ ~NameTaken(View(s), name)

\* add_category, lines 244-245 and 250-254: the INSERT; an exception is
\* caught, the connection is closed and False is returned.
AcInsert(s) ==
    /\ pc[s] = "ac_insert"
    /\ \/ /\ CategoryAccepted(s, local[s].name)
          /\ Execute(s, CategoryInsert(View(s), local[s].name))
          /\ Goto(s, "ac_commit", local[s])
          /\ UNCHANGED stock_at_call
       \/ /\ ~CategoryAccepted(s, local[s].name)
          /\ Rollback(s)
          /\ Return(s)
    /\ UNCHANGED <<storeUp, user, db_initialized>>

\* add_category, lines 246-249: commit, close, return True.
AcCommit(s) ==
    /\ pc[s] = "ac_commit"
    /\ Commit(s)
    /\ Return(s)
    /\ UNCHANGED <<storeUp, user, db_initialized>>

\* Products added so far and being added.
NewProducts ==
    Len(db.products) - Len(InitDb.products)
        + Cardinality({t \in Sessions : pc[t] \in AddProductPcs})

\* add_product, lines 182-189, called with any dictionary.  Without a
\* connection it returns False at once.
AddProductCall(s) ==
    /\ pc[s] = "idle"
    /\ user[s] # 0
    /\ NewProducts < MaxNewProducts
    /\ \E data \in ProductDicts :
         IF storeUp
         THEN /\ Goto(s, "ap_values", [data |-> data])
              /\ UNCHANGED stock_at_call
         ELSE Return(s)
    /\ NoStoreChange
    /\ UNCHANGED <<storeUp, user, db_initialized>>

\* main, lines 683-716: the "Add Product" form.  The category is one of
\* get_categories() (None if there is none); an empty name, a missing
\* category or a price <= 0 get an error message, otherwise add_product is
\* called with a dictionary that holds every key.
AddProductForm(s) ==
    /\ pc[s] = "idle"
    /\ db_initialized[s]
    /\ user[s] # 0
    /\ NewProducts < MaxNewProducts
    /\ \E name \in {<<>>, <<" ">>, <<"z", " ">>}, price \in {0, 3}, stock \in {0, 2} :
       \E category_id \in IF storeUp /\ db.categories # <<>>
                           THEN DOMAIN db.categories ELSE {0} :
         IF strip(name) # <<>> /\ category_id # 0 /\ price > 0 /\ storeUp
         THEN /\ Goto(s, "ap_values",
                      [data |-> [name |-> strip(name),
                                 category_id |-> category_id,
                                 price |-> price,
                                 stock |-> stock]])
              /\ UNCHANGED stock_at_call
         ELSE Return(s)
    /\ NoStoreChange
    /\ UNCHANGED <<storeUp, user, db_initialized>>

\* add_product, lines 194-201: the values tuple is built with data['name'],
\* data['category_id'], data['price'], data['stock'], outside the try: a
\* missing key raises KeyError, which leaves the function with its
\* connection open.
ApValues(s) ==
    /\ pc[s] = "ap_values"
    /\ \/ /\ ProductKeys \subseteq DOMAIN local[s].data
          /\ Goto(s, "ap_insert", local[s])
          /\ UNCHANGED <<leaked, stock_at_call>>
       \/ /\ ~(ProductKeys \subseteq DOMAIN local[s].data)
          /\ leaked' = TRUE
          /\ pc' = [pc EXCEPT ![s] = "idle"]
          /\ local' = [local EXCEPT ![s] = NoLocal]
          /\ raised' = {s}
          /\ UNCHANGED stock_at_call
    /\ UNCHANGED <<db, wdb, writer, leak_tx, storeUp, user, db_initialized>>

\* add_product, lines 203-204 and 209-213: the INSERT; an exception (the
\* database is locked) is caught, the connection is closed and False is
\* returned.  The columns' constraints (NOT NULL on product_name and price)
\* hold for every str and every number.
ApInsert(s) ==
    /\ pc[s] = "ap_insert"
    /\ \/ /\ CanWrite(s)
          /\ Execute(s, ProductInsert(View(s), local[s].data))
          /\ Goto(s, "ap_commit", local[s])
          /\ UNCHANGED stock_at_call
       \/ /\ ~CanWrite(s)
          /\ Rollback(s)
          /\ Return(s)
    /\ UNCHANGED <<storeUp, user, db_initialized>>

\* add_product, lines 205-208: commit, close, return True.
ApCommit(s) ==
    /\ pc[s] = "ap_commit"
    /\ Commit(s)
    /\ Return(s)
    /\ UNCHANGED <<storeUp, user, db_initialized>>

\* A statement of add_to_cart, create_order or clear_cart raises
\* (sqlite3.OperationalError "database is locked", a disk error, ...).
\* These functions have no try: the exception leaves the function with the
\* connection open and its transaction neither committed nor rolled back.
StmtRaises(s) ==
    /\ pc[s] \in AddToCartPcs \cup CreateOrderPcs \cup ClearCartPcs
    /\ db' = StoreAfterRaise(db, View(s))
    /\ writer' = writer \ {s}
    /\ leaked' = TRUE
    /\ leak_tx' = (leak_tx \/ s \in writer)
    /\ pc' = [pc EXCEPT ![s] = "idle"]
    /\ local' = [local EXCEPT ![s] = NoLocal]
    /\ stock_at_call' = [stock_at_call EXCEPT ![s] = <<>>]
    /\ raised' = {s}
    /\ UNCHANGED <<wdb, storeUp, user, db_initialized>>

\* The interpreter frees the connections no frame refers to any more:
\* sqlite3 closes them, which rolls an open transaction back.
CollectGarbage ==
    /\ leaked
    /\ leaked' = FALSE
    /\ leak_tx' = FALSE
    /\ wdb' = IF leak_tx THEN db ELSE wdb
    /\ raised' = {}
    /\ UNCHANGED <<db, writer, storeUp, pc, user, db_initialized, local, stock_at_call>>

\* The store file becomes unreachable or reachable again.
StoreFlips ==
    /\ storeUp' = ~storeUp
    /\ raised' = {}
    /\ UNCHANGED <<db, wdb, writer, leaked, leak_tx, pc, user, db_initialized,
                   local, stock_at_call>>

\* ------------------------------------------------------- specifications
\* The shop: logged-in sessions add to their carts and check out.
Shop(s) ==
    \/ AddToCartCall(s)
    \/ AtcSelect(s)
    \/ AtcWrite(s)
    \/ AtcCommit(s)
    \/ GetCartItems(s)
    \/ CreateOrderCall(s)
    \/ CoOrder(s)
    \/ CoItem(s)
    \/ CoStock(s)
    \/ CoCommit(s)
    \/ ClearCartCall(s)
    \/ CcDelete(s)
    \/ CcCommit(s)
    \/ StmtRaises(s)

Next == (\E s \in Sessions : Shop(s)) \/ CollectGarbage

Spec == Init /\ [][Next]_vars

\* Sequential calls: a session takes a step only while no other session is
\* inside a data operation.
NextSeq ==
    \/ \E s \in Sessions : (\A t \in Sessions \ {s} : ~InOp(t)) /\ Shop(s)
    \/ CollectGarbage

SpecSeq == Init /\ [][NextSeq]_vars

\* Accounts: fresh sessions initialise the database, register and log in.
Account(s) ==
    \/ InitDatabase(s)
    \/ Login(s)
    \/ RegisterCall(s)
    \/ RegInsert(s)
    \/ RegCommit(s)

NextAccounts == \E s \in Sessions : Account(s)

SpecAccounts == InitFresh /\ [][NextAccounts]_vars

\* The whole program with a store that may become unreachable.
NextOutage ==
    \/ \E s \in Sessions : Account(s) \/ Shop(s)
    \/ CollectGarbage
    \/ StoreFlips

SpecOutage == InitFresh /\ [][NextOutage]_vars

\* The ad-hoc query area of the admin panel.
Gateway(s) ==
    \/ TypeQuery(s)
    \/ ExecuteQuery(s)
    \/ QryRead(s)

NextGateway == (\E s \in Sessions : Gateway(s)) \/ CollectGarbage

SpecGateway == Init /\ [][NextGateway]_vars

\* add_to_cart as a function: calls with any quantity, from two callers.
CartCall(s) ==
    \/ AddToCartAnyQuantity(s)
    \/ AtcSelect(s)
    \/ AtcWrite(s)
    \/ AtcCommit(s)

NextCartCalls == \E s \in Sessions : CartCall(s)

SpecCartCalls == Init /\ [][NextCartCalls]_vars

\* The catalog: add_category and add_product, called as functions with any
\* argument and through the forms of the admin panel.
Catalog(s) ==
    \/ AddCategoryCall(s)
    \/ AddCategoryForm(s)
    \/ AcInsert(s)
    \/ AcCommit(s)
    \/ AddProductCall(s)
    \/ AddProductForm(s)
    \/ ApValues(s)
    \/ ApInsert(s)
    \/ ApCommit(s)

NextCatalog == (\E s \in Sessions : Catalog(s)) \/ CollectGarbage

SpecCatalog == InitCatalog /\ [][NextCatalog]_vars

\* --------------------------------------------------------------- claims
Stock(d, p) == d.products[p].stock_quantity

\* C1: in every reachable state every product's stock_quantity is >= 0.
C1_StockNeverNegative ==
    \A p \in DOMAIN db.products : Stock(db, p) >= 0

\* C3: in every reachable state the cart table holds at most one row per
\* (customer_id, product_id) pair.
C3_OneRowPerPair ==
    \A c \in CustomerIds, p \in ProductIds : Cardinality(CartMatches(db, c, p)) <= 1

\* C9: once an operation has ended, successfully or not, none of the
\* connections it opened is still open.
C9_ConnectionsReleased == ~leaked

\* The order_items rows of order o, and sums over them.
ItemsOf(d, o) == SelectSeq(d.order_items, LAMBDA r : r.order_id = o)
SubtotalsOf(d, o) ==
    LET rows == ItemsOf(d, o) IN SumSeq([i \in DOMAIN rows |-> rows[i].subtotal])
SoldOf(d, p) ==
    LET rows == SelectSeq(d.order_items, LAMBDA r : r.product_id = p)
    IN SumSeq([i \in DOMAIN rows |-> rows[i].quantity])

\* In store d every order has its items and every item its stock decrement.
OrdersWhole(d) ==
    /\ \A o \in DOMAIN d.orders :
          /\ ItemsOf(d, o) # <<>>
          /\ d.orders[o].total_amount = SubtotalsOf(d, o)
    /\ \A i \in DOMAIN d.order_items : d.order_items[i].order_id \in DOMAIN d.orders
    /\ \A p \in DOMAIN d.products : Stock(d, p) = Stock(InitDb, p) - SoldOf(d, p)

\* C2: create_order is atomic.  A step in which a statement of create_order
\* raises leaves the persisted store as it was, the persisted store changes
\* only in the step that commits an operation, and it never holds an order
\* without all of its items or items without their stock decrements.
C2_CreateOrderAtomic ==
    /\ [][\A s \in Sessions :
             (pc[s] \in CreateOrderPcs /\ s \in raised') => db' = db]_vars
    /\ [][db' # db => \E s \in Sessions :
             /\ pc[s] \in {"atc_commit", "co_commit", "cc_commit", "reg_commit"}
             /\ s \notin raised']_vars
    /\ []OrdersWhole(db)

\* C2 happens: create_order has raised after writing its order and some of
\* its items or stock updates, which are in no persisted order.
C2_Witness ==
    /\ raised # {}
    /\ leak_tx
    /\ Len(wdb.orders) > Len(db.orders)
    /\ Len(wdb.order_items) > Len(db.order_items)
    /\ ~OrdersWhole(wdb)

\* The cart rows of (c, p) and the quantity they hold.
RowsOf(d, c, p) == SelectSeq(d.cart, LAMBDA r : r.customer_id = c /\ r.product_id = p)
CartQty(d, c, p) ==
    LET rows == RowsOf(d, c, p) IN SumSeq([i \in DOMAIN rows |-> rows[i].quantity])

\* Session s completes add_to_cart in this step.
AddToCartReturns(s) == pc[s] = "atc_commit" /\ pc'[s] = "idle" /\ s \notin raised'
\* Session s completes clear_cart in this step.
ClearCartReturns(s) == pc[s] = "cc_commit" /\ pc'[s] = "idle" /\ s \notin raised'

\* C4: with sequential calls, add_to_cart(c, p, q) leaves exactly one entry
\* for (c, p), holding q more than before (q if there was none), and leaves
\* the entries of every other pair unchanged; the cart changes in no other
\* step than a completing add_to_cart or clear_cart, so the quantity of
\* (c, p) is the sum of the quantities added since c's cart was cleared.
C4_AddAccumulates ==
    /\ [][\A s \in Sessions : AddToCartReturns(s) =>
            /\ Len(RowsOf(db', user[s], local[s].product_id)) = 1
            /\ CartQty(db', user[s], local[s].product_id)
                  = CartQty(db, user[s], local[s].product_id) + local[s].quantity
            /\ \A c \in CustomerIds, p \in ProductIds :
                  (c # user[s] \/ p # local[s].product_id)
                      => RowsOf(db', c, p) = RowsOf(db, c, p)]_vars
    /\ [][db'.cart # db.cart =>
            \E s \in Sessions : AddToCartReturns(s) \/ ClearCartReturns(s)]_vars

\* C4 happens: two additions of one unit of product 1 (whose stock admits
\* no larger quantity) have accumulated in one entry.
C4_Witness ==
    \E c \in CustomerIds : Len(RowsOf(db, c, 1)) = 1 /\ CartQty(db, c, 1) = 2

\* C5: in every reachable state every order's total_amount equals the sum
\* of the subtotals of the order_items rows that reference the order.
C5_TotalIsSumOfSubtotals ==
    \A o \in DOMAIN db.orders : db.orders[o].total_amount = SubtotalsOf(db, o)

\* C5 happens: a persisted order with two line items, so that the sum has
\* several terms.
C5_Witness ==
    \E o \in DOMAIN db.orders : Len(ItemsOf(db, o)) = 2

\* Session s completes create_order in this step.
CreateOrderReturns(s) == pc[s] = "co_commit" /\ pc'[s] = "order_placed"

\* The order_items rows create_order is to write for the lines it was given.
ItemsFor(order_id, cart_items) ==
    [i \in DOMAIN cart_items |->
        [order_id |-> order_id,
         product_id |-> cart_items[i].product_id,
         quantity |-> cart_items[i].quantity,
         unit_price |-> cart_items[i].price,
         subtotal |-> cart_items[i].quantity * cart_items[i].price]]

\* C6: every order_items row has subtotal = quantity * unit_price; the rows
\* an order adds carry as unit_price the price of the cart line they were
\* made from, and no later step alters a row.
C6_SubtotalIsQuantityTimesPrice ==
    /\ [](\A i \in DOMAIN db.order_items :
            db.order_items[i].subtotal
               = db.order_items[i].quantity * db.order_items[i].unit_price)
    /\ [][\A s \in Sessions : CreateOrderReturns(s) =>
            db'.order_items = db.order_items
                                 \o ItemsFor(local[s].order_id, local[s].cart_items)]_vars
    /\ [][\A i \in DOMAIN db.order_items :
            i \in DOMAIN db'.order_items /\ db'.order_items[i] = db.order_items[i]]_vars

\* C6 happens: a persisted order item of two units, followed by a later
\* order (steps after the first order was placed).
C6_Witness ==
    /\ Len(db.orders) = 2
    /\ \E i \in DOMAIN db.order_items :
          db.order_items[i].order_id = 1 /\ db.order_items[i].quantity = 2

\* The units of product p in the lines given to create_order.
LineUnits(cart_items, p) ==
    LET rows == SelectSeq(cart_items, LAMBDA r : r.product_id = p)
    IN SumSeq([i \in DOMAIN rows |-> rows[i].quantity])

\* C7 as stated: a successful create_order whose lines contain quantity q
\* for product p leaves p's stock at its value when the call began minus q,
\* and every product not in the lines at its value when the call began.
C7_StockSinceCallBegan ==
    [][\A s \in Sessions : CreateOrderReturns(s) =>
          /\ \A i \in DOMAIN local[s].cart_items :
                Stock(db', local[s].cart_items[i].product_id)
                   = stock_at_call[s][local[s].cart_items[i].product_id]
                        - local[s].cart_items[i].quantity
          /\ \A p \in DOMAIN db.products :
                LineUnits(local[s].cart_items, p) = 0
                    => Stock(db', p) = stock_at_call[s][p]]_vars

\* C7 amended: a successful create_order decreases the persisted stock of
\* every product p, relative to its value immediately before the call's
\* commit, by exactly the sum of the quantities of the call's lines for p,
\* and so leaves every product not in the lines unchanged.
C7_StockDecreasesByLines ==
    [][\A s \in Sessions : CreateOrderReturns(s) =>
          \A p \in DOMAIN db.products :
              Stock(db', p) = Stock(db, p) - LineUnits(local[s].cart_items, p)]_vars

\* C7 happens: an order with a line of two units of product 2 has been
\* placed, product 1 not being in it.
C7_Witness ==
    \E s \in Sessions :
        /\ pc[s] = "order_placed"
        /\ ItemsOf(db, local[s].order_id) # <<>>
        /\ \A i \in DOMAIN db.order_items :
              db.order_items[i].order_id = local[s].order_id
                 => db.order_items[i].product_id = 2 /\ db.order_items[i].quantity = 2
        /\ Stock(db, 1) = Stock(InitDb, 1)

\* C8: no two customers share an email; if a customer with email e exists,
\* the INSERT of register_customer with email e ends the call with False
\* and the persisted store as before; the customers table changes only by
\* the commit of a registration whose email was not taken, which appends
\* one customer and leaves the earlier ones as they were.
C8_EmailUnique ==
    /\ [](\A i, j \in DOMAIN db.customers :
            i # j => db.customers[i].email # db.customers[j].email)
    /\ [][\A s \in Sessions :
            (pc[s] = "reg_insert" /\ pc'[s] # pc[s] /\ EmailTaken(db, local[s].email))
               => pc'[s] = "idle" /\ db' = db]_vars
    /\ [][db'.customers # db.customers =>
            \E s \in Sessions :
               /\ pc[s] = "reg_commit"
               /\ ~EmailTaken(db, local[s].email)
               /\ db'.customers = Append(db.customers,
                     [email |-> local[s].email,
                      password_hash |-> hash_password(local[s].password)])]_vars

\* C8 happens: a registration has been committed and a second one with the
\* same email is at its INSERT.
C8_Witness ==
    /\ Len(db.customers) > Len(InitDb.customers)
    /\ \E s \in Sessions :
          /\ pc[s] = "reg_insert"
          /\ local[s].email = db.customers[Len(db.customers)].email

\* C10: an operation entered while the store is unreachable hands a failure
\* signal back: its script is not ended by an exception, and it does not go
\* on to a statement (so it writes nothing).
C10_OutageReturnsFailure ==
    [][\A s \in Sessions :
          (~storeUp /\ ~InOp(s)) =>
              /\ s \notin raised'
              /\ pc'[s] \notin AddToCartPcs \cup CreateOrderPcs
                                \cup ClearCartPcs \cup RegisterPcs]_vars

\* Store d holds a customer with this email and the hash of this password.
CredentialsMatch(d, email, password) ==
    \E i \in DOMAIN d.customers :
        /\ d.customers[i].email = email
        /\ d.customers[i].password_hash = hash_password(password)

\* C11: authenticate_user(email, password) returns a customer record if and
\* only if a customer with that email and the hash of that password exists,
\* and the record is that customer's; an unknown email and a known email
\* with a wrong password both give None; a login changes nothing in the
\* store, and the user a session gets is a result of authenticate_user.
C11_AuthenticateUser ==
    /\ [](\A email \in Emails, password \in Passwords :
            LET r == authenticate_user(db, email, password)
            IN /\ r # 0 <=> CredentialsMatch(db, email, password)
               /\ r # 0 => /\ r \in DOMAIN db.customers
                           /\ db.customers[r].email = email
                           /\ db.customers[r].password_hash = hash_password(password)
               /\ (~EmailTaken(db, email)) => r = 0
               /\ (EmailTaken(db, email) /\ ~CredentialsMatch(db, email, password))
                     => r = 0)
    /\ [][\A s \in Sessions : user'[s] # user[s] =>
            /\ db' = db /\ wdb' = wdb /\ writer' = writer
            /\ \E email \in Emails, password \in Passwords :
                  /\ CredentialsMatch(db, email, password)
                  /\ user'[s] = authenticate_user(db, email, password)]_vars

\* C11 happens: a session has logged in while the other one is logged out,
\* and the store knows an email with a password that is not its own as well
\* as an email of no customer.
C11_Witness ==
    /\ \E s \in Sessions : user[s] # 0
    /\ \E s \in Sessions : user[s] = 0
    /\ \E email \in Emails, password \in Passwords :
          EmailTaken(db, email) /\ ~CredentialsMatch(db, email, password)
    /\ \E email \in Emails : ~EmailTaken(db, email)

\* The text begins, after leading whitespace, with the letters of SELECT in
\* either case.
BeginsWithSelect(str) ==
    LET letters == <<{"S", "s"}, {"E", "e"}, {"L", "l"}, {"E", "e"}, {"C", "c"},
                     {"T", "t"}>>
    IN \E k \in 0..Len(str) :
          /\ \A i \in 1..k : str[i] \in Whitespace
          /\ Len(str) >= k + Len(letters)
          /\ \A i \in DOMAIN letters : str[k + i] \in letters[i]

\* C12: "Execute Query" hands the typed text to the store if and only if
\* the text, without surrounding whitespace, begins case-insensitively with
\* SELECT, and hands it over as typed; every other text is rejected with no
\* connection made and the store as it was; a text reaches the store in no
\* other way.
C12_GatewayAdmitsSelectOnly ==
    /\ [][\A s \in Sessions : (pc[s] = "qry_typed" /\ pc'[s] # "qry_typed") =>
            /\ pc'[s] = "qry_read" <=> BeginsWithSelect(local[s].custom_query)
            /\ pc'[s] = "qry_read" => local'[s].custom_query = local[s].custom_query
            /\ (~BeginsWithSelect(local[s].custom_query)) =>
                  /\ pc'[s] = "idle"
                  /\ s \notin raised'
                  /\ db' = db /\ wdb' = wdb /\ writer' = writer
                  /\ leaked' = leaked /\ leak_tx' = leak_tx]_vars
    /\ [][\A s \in Sessions : (pc'[s] = "qry_read" /\ pc[s] # "qry_read") =>
            pc[s] = "qry_typed"]_vars

\* C12 happens: a text with leading whitespace and a lower-case select is
\* at the store while the other session has typed a text that is no SELECT.
C12_Witness ==
    \E s, t \in Sessions :
        /\ pc[s] = "qry_read"
        /\ local[s].custom_query = <<"\n", "s", "e", "l", "e", "c", "t", " ", "1", " ">>
        /\ pc[t] = "qry_typed"
        /\ ~BeginsWithSelect(local[t].custom_query)

\* C13: an order row and the order_items rows of the persisted store are
\* the same rows in every later state (no step changes or deletes them),
\* and every order has status 'pending' from its creation on.
C13_OrdersImmutable ==
    /\ [][db' # db =>
            /\ \A o \in DOMAIN db.orders :
                 o \in DOMAIN db'.orders /\ db'.orders[o] = db.orders[o]
            /\ \A i \in DOMAIN db.order_items :
                 i \in DOMAIN db'.order_items /\ db'.order_items[i] = db.order_items[i]
            /\ \A o \in DOMAIN db.orders : ItemsOf(db', o) = ItemsOf(db, o)]_vars
    /\ [](\A o \in DOMAIN db.orders : db.orders[o].status = "pending")
    /\ [](\A s \in Sessions : \A o \in DOMAIN View(s).orders :
            View(s).orders[o].status = "pending")

\* C13 happens: the orders of two customers are persisted and both carts
\* have been cleared since (the first order has seen a later add_to_cart,
\* create_order and clear_cart).
C13_Witness ==
    /\ Len(db.orders) = 2
    /\ db.orders[1].customer_id # db.orders[2].customer_id
    /\ db.cart = <<>>
    /\ \A s \in Sessions : pc[s] = "idle"

\* C14: a call of add_to_cart with quantity <= 0 does not succeed and leaves
\* the cart unchanged, and every cart entry has quantity >= 1.
C14_QuantityPositive ==
    /\ [][\A s \in Sessions :
            (pc[s] \in AddToCartPcs /\ local[s].quantity <= 0) =>
                ~AddToCartReturns(s) /\ db'.cart = db.cart]_vars
    /\ [](\A i \in DOMAIN db.cart : db.cart[i].quantity >= 1)

\* C15: add_category with an empty name, or with a name some category
\* already has, returns failure and leaves the categories table unchanged;
\* in every reachable state category names are non-empty and pairwise
\* distinct.
C15_AddCategoryRejects ==
    /\ [][\A s \in Sessions :
            (/\ pc[s] = "ac_insert"
             /\ pc'[s] # pc[s]
             /\ (local[s].name = <<>> \/ NameTaken(db, local[s].name)))
                => pc'[s] = "idle" /\ db'.categories = db.categories]_vars
    /\ [][\A s \in Sessions :
            (pc[s] = "ac_commit" /\ local[s].name = <<>>)
                => db'.categories = db.categories]_vars
    /\ [](\A i \in DOMAIN db.categories : db.categories[i].category_name # <<>>)
    /\ [](\A i, j \in DOMAIN db.categories :
            i # j => db.categories[i].category_name # db.categories[j].category_name)

\* The dictionary supplies a name, a category reference and a price > 0.
Supplied(data) ==
    /\ {"name", "category_id", "price"} \subseteq DOMAIN data
    /\ data.name # <<>>
    /\ data.category_id # 0
    /\ data.price > 0

\* Session s completes add_product in this step.
AddProductReturns(s) == pc[s] = "ap_commit" /\ pc'[s] = "idle" /\ s \notin raised'

\* C16: add_product returns failure and inserts nothing unless a name, a
\* category reference and a price > 0 are supplied (it does not succeed, it
\* does not raise, the products table stays as it was); a call without the
\* stock key whose other fields are supplied goes on to create the product,
\* with stock_quantity 0.
C16_AddProductValidates ==
    /\ [][\A s \in Sessions :
            (pc[s] \in AddProductPcs /\ ~Supplied(local[s].data))
                => /\ ~AddProductReturns(s)
                   /\ s \notin raised'
                   /\ db'.products = db.products]_vars
    /\ [][\A s \in Sessions :
            (/\ pc[s] = "ap_values"
             /\ pc'[s] # pc[s]
             /\ Supplied(local[s].data)
             /\ "stock" \notin DOMAIN local[s].data)
                => pc'[s] = "ap_insert" /\ s \notin raised']_vars
    /\ [][\A s \in Sessions :
            (AddProductReturns(s) /\ "stock" \notin DOMAIN local[s].data)
                => db'.products[Len(db'.products)].stock_quantity = 0]_vars

\* C17: clear_cart(c) deletes every cart entry of customer c and leaves
\* the entries of the other customers, in their order, and the products,
\* orders, order items and every other table as they were; the store
\* changes in no step of clear_cart but the one in which it completes; when
\* the clear_cart of a checkout has completed, c has no cart entries.
C17_ClearCartFrame ==
    /\ [][\A s \in Sessions : ClearCartReturns(s) =>
            /\ db'.cart = SelectSeq(db.cart, LAMBDA r : r.customer_id # user[s])
            /\ \A p \in ProductIds : RowsOf(db', user[s], p) = <<>>
            /\ \A c \in CustomerIds \ {user[s]}, p \in ProductIds :
                   RowsOf(db', c, p) = RowsOf(db, c, p)
            /\ \A table \in DOMAIN db \ {"cart"} : db'[table] = db[table]]_vars
    /\ [][\A s \in Sessions :
            (pc[s] \in {"order_placed", "cc_delete"} /\ pc'[s] # pc[s])
                => db' = db]_vars

\* C17 happens: a customer's order is placed and the cart cleared, with no
\* failed statement on the way, while the other customer's cart still
\* holds an entry.
C17_Witness ==
    /\ \A s \in Sessions : pc[s] = "idle"
    /\ ~leaked
    /\ Len(db.orders) = 1
    /\ \A i \in DOMAIN db.cart : db.cart[i].customer_id # db.orders[1].customer_id
    /\ db.cart # <<>>

\* The (product, quantity) pairs of a sequence of rows, with their numbers
\* of occurrences.
PairBag(rows) ==
    LET pair(i) == <<rows[i].product_id, rows[i].quantity>>
    IN [x \in {pair(i) : i \in DOMAIN rows} |->
            Cardinality({i \in DOMAIN rows : pair(i) = x})]

\* C18: for every checkout, the (product, quantity) pairs that clear_cart
\* removes from the customer's cart are exactly the pairs recorded as the
\* order_items of the order the checkout has placed, whatever other
\* sessions of the customer do in between.
C18_CheckoutDropsNothing ==
    [][\A s \in Sessions : ClearCartReturns(s) =>
          PairBag(SelectSeq(db.cart, LAMBDA r : r.customer_id = user[s]))
              = PairBag(ItemsOf(db, local[s].order_id))]_vars

\* C19: a cart's content is ordered at most once.  Of two checkout flows of
\* one customer that have both taken their snapshot before either has run
\* clear_cart, at most one creates an order: no state has two sessions of a
\* customer that have each placed an order and not yet cleared the cart.
C19_OrderedAtMostOnce ==
    \A s, t \in Sessions :
        (s # t /\ user[s] = user[t])
            => ~(pc[s] = "order_placed" /\ pc[t] = "order_placed")

====
